---- MODULE Spec2Model ----
(***************************************************************************)
(* Model of the MSOGL display filter                                       *)
(* (src/videofilters/generic_opengl_display.c).                            *)
(*                                                                         *)
(* One filter instance, driven by a media thread (ogl_process and the      *)
(* render method) and a control thread (the filter methods).  Every        *)
(* function of the file is a straight-line program of steps (its *_code    *)
(* table); a thread executes the steps of the function it is in one at a   *)
(* time, so the two threads interleave between steps.  A step is a         *)
(* statement, or a run of statements no other thread can observe apart:    *)
(* taking the lock with the code run under it, releasing the lock with     *)
(* the return that follows.                                                *)
(***************************************************************************)
EXTENDS Integers, Sequences, FiniteSets, TLC

\* ------------------------------------------------------------------ bounds
MaxDim == 1        \* surface sizes range over 0..MaxDim
MaxFrames == 2     \* frames the upstream filters produce in a run
MaxLockCount == 1  \* recursive mutex: depth at which no further leak is started

\* --------------------------------------------------------------- constants
NULL == 0
NoThread == "nobody"
Threads == {"media", "control"}
Dim == 0 .. MaxDim
Sizes == [width : Dim, height : Dim]
\* decoded pictures of the stream (src.w, src.h of ms_yuv_buf_init_from_mblk)
FrameSizes == {[w |-> 2, h |-> 2]}
\* the sizes MS_FILTER_SET_VIDEO_SIZE is called with
VideoSizes == {[width |-> 2, height |-> 2]}
\* What relocking a default-initialised mutex does is fixed by the build:
\* a normal pthread mutex blocks for ever, an error-checking one returns
\* EDEADLK (ignored by the caller), a recursive one (Win32) counts.
MutexKinds == {"normal", "errorcheck", "recursive"}

VARIABLES
    phase,        \* "created" (before init) | "ready" | "uninit"
    log,          \* what the latest step wrote with ms_error, "" if nothing
    mutexKind,    \* the build's mutex behaviour on relock, "unknown" until
                  \* the first relock shows it
    heap,         \* live FilterData blocks: block id -> FilterData
    f_data,       \* f->data: NULL or a block id
    displays,     \* renderer handles ogl_display_new returned, still live
    destroyed,    \* arguments of the ogl_display_free calls, in order
    lock,         \* f->lock: [owner, count]
    connected,    \* connected[i]: f->inputs[i] != NULL
    inputs,       \* inputs[i]: the queue of input i (frames, oldest first)
    nextId,       \* identity of the next frame upstream produces
    pc,           \* pc[t]: index of the next step of thread t, 0 idle
    op,           \* op[t]: the function thread t is in, "none" when idle
    made,         \* made[t]: calls t made under the lock it holds, in order
    arg,          \* arg[t]: <<*arg>> of the method t runs under the lock
    hidden,       \* history: the last ogl_show_video stored FALSE
    startBV       \* history: bound and visible when ogl_process was entered

vars == <<phase, log, mutexKind, heap, f_data, displays, destroyed, lock,
          connected, inputs, nextId, pc, op, made, arg,
          hidden, startBV>>

\* -------------------------------------------------------------- data types
\* ms_new(FilterData, 1): a block that is not cleared
ms_new_FilterData ==
    [context_info |-> [width |-> 1, height |-> 1],
     display      |-> 0,
     video_size   |-> [width |-> 0, height |-> 0],
     show_video   |-> FALSE,
     mirroring    |-> TRUE]

\* ms_new0(FilterData, 1): a zero-filled block
ms_new0_FilterData ==
    [context_info |-> [width |-> 0, height |-> 0],
     display      |-> NULL,
     video_size   |-> [width |-> 0, height |-> 0],
     show_video   |-> FALSE,
     mirroring    |-> FALSE]

\* the block f->data points to
data == heap[f_data]

Event(fn, display, frame, w, h) ==
    [fn |-> fn, display |-> display, frame |-> frame, w |-> w, h |-> h]

RendererFns == {"ogl_display_init", "ogl_display_set_yuv_to_display",
                "ogl_display_render", "ogl_display_zoom"}

RendererCalls(s) == SelectSeq(s, LAMBDA e : e.fn \in RendererFns)
CallsOf(s, fn) == SelectSeq(s, LAMBDA e : e.fn = fn)

\* ------------------------------------------------------- the function bodies
ogl_process_code ==
    <<"lock; body", "unlock; flush", "return">>
ogl_set_video_size_code ==
    <<"lock; body", "unlock; return 0">>
ogl_set_native_window_id_code ==
    <<"lock; body", "unlock; return 0">>
ogl_get_native_window_id_code ==
    <<"return 0">>
ogl_show_video_code ==
    <<"lock; body", "unlock; return 0">>
ogl_zoom_code ==
    <<"lock; body", "lock; return 0">>
ogl_enable_mirroring_code ==
    <<"lock; body", "lock; return 0">>
ogl_call_render_code ==
    <<"lock; body", "unlock; return 0">>

\* MSFilterMethod methods[]
methods == {"ogl_set_video_size", "ogl_set_native_window_id",
            "ogl_get_native_window_id", "ogl_show_video", "ogl_zoom",
            "ogl_enable_mirroring", "ogl_call_render"}

Code(o) ==
    CASE o = "ogl_process"              -> ogl_process_code
      [] o = "ogl_set_video_size"       -> ogl_set_video_size_code
      [] o = "ogl_set_native_window_id" -> ogl_set_native_window_id_code
      [] o = "ogl_get_native_window_id" -> ogl_get_native_window_id_code
      [] o = "ogl_show_video"           -> ogl_show_video_code
      [] o = "ogl_zoom"                 -> ogl_zoom_code
      [] o = "ogl_enable_mirroring"     -> ogl_enable_mirroring_code
      [] o = "ogl_call_render"          -> ogl_call_render_code
      [] OTHER                          -> <<>>

\* the ticker runs process and the render method on the media thread, the
\* application calls the other methods on the control thread
OpsOf(t) == IF t = "media" THEN {"ogl_process", "ogl_call_render"}
            ELSE methods \ {"ogl_call_render"}

Idle(t) == pc[t] = 0
Stmt(t) == IF pc[t] = 0 THEN "idle" ELSE Code(op[t])[pc[t]]
At(t, o, s) == op[t] = o /\ Stmt(t) = s

\* ------------------------------------------------------------ the mutex
\* ms_filter_lock(f) returns: the lock is free, or the caller holds it and
\* the mutex is not one that blocks on relock
mutex_lock_enabled(l, t, kind) ==
    l.owner = NoThread \/ (l.owner = t /\ kind \in {"errorcheck", "recursive"})

mutex_lock(l, t, kind) ==
    IF l.owner = NoThread THEN [owner |-> t, count |-> 1]
    ELSE IF kind = "recursive" THEN [l EXCEPT !.count = @ + 1]
    ELSE l

mutex_unlock(l, t) ==
    IF l.owner # t THEN l
    ELSE IF l.count > 1 THEN [l EXCEPT !.count = @ - 1]
    ELSE [owner |-> NoThread, count |-> 0]

\* ----------------------------------------------------------------- Init
Init ==
    /\ phase = "created"
    /\ log = ""
    /\ mutexKind = "unknown"
    /\ heap = <<>>
    /\ f_data = NULL
    /\ displays = {}
    /\ destroyed = <<>>
    /\ lock = [owner |-> NoThread, count |-> 0]
    /\ connected \in [0 .. 1 -> BOOLEAN]
    /\ inputs = [i \in 0 .. 1 |-> <<>>]
    /\ nextId = 1
    /\ pc = [t \in Threads |-> 0]
    /\ op = [t \in Threads |-> "none"]
    /\ made = [t \in Threads |-> <<>>]
    /\ arg = [t \in Threads |-> <<>>]
    /\ hidden = FALSE
    /\ startBV = FALSE

\* ------------------------------------------------------------- lifecycle
\* ogl_display_new(): a handle no live renderer has
ogl_display_new(live) ==
    CHOOSE h \in 1 .. Cardinality(live) + 1 : h \notin live

\* ms_new0: the address of a fresh block
ms_new(hp) ==
    CHOOSE b \in 1 .. Cardinality(DOMAIN hp) + 1 : b \notin DOMAIN hp

ms_free(hp, b) == [x \in DOMAIN hp \ {b} |-> hp[x]]

\* the outcomes of glewInit() and GLEW_VERSION_2_0
GlewOutcomes == {"ok", "init failed", "no 2.0"}

\* what ogl_init writes with ms_error on each
GlewError(probe) ==
    CASE probe = "init failed" -> "glew init error"
      [] probe = "no 2.0"      -> "glew 2.0 is required"
      [] OTHER                 -> ""

ogl_init ==
    /\ phase = "created"
    /\ \E probe \in GlewOutcomes : log' = GlewError(probe)
    /\ LET blk == ms_new(heap)
           h   == ogl_display_new(displays)
       IN  /\ heap' = heap @@ (blk :> [ms_new0_FilterData EXCEPT
                                          !.display = h,
                                          !.show_video = TRUE])
           /\ displays' = displays \cup {h}
           /\ f_data' = blk
    /\ phase' = "ready"
    /\ UNCHANGED <<mutexKind, arg, destroyed, lock, connected, inputs, nextId,
                   pc, op, made, hidden, startBV>>

\* the block ogl_uninit works on: FilterData *data = ms_new0(FilterData, 1)
ogl_uninit_data(hp, fd) == ms_new0_FilterData

\* the framework destroys a filter once no thread is inside it
ogl_uninit ==
    /\ phase = "ready"
    /\ \A t \in Threads : Idle(t)
    /\ LET blk == ms_new(heap)
           d   == ogl_uninit_data(heap, f_data)
           hp  == heap @@ (blk :> d)
       IN  /\ destroyed' = Append(destroyed, d.display)
           /\ displays' = displays \ {d.display}
           /\ heap' = ms_free(hp, blk)
    /\ phase' = "uninit"
    /\ log' = ""
    /\ UNCHANGED <<mutexKind, arg, f_data, lock, connected, inputs, nextId,
                   pc, op, made, hidden, startBV>>

\* ------------------------------------------------------------ the queues
\* precious is a flag of a picture: it is read on valid buffers only
Frames(id) ==
    {fr \in [id : {id}, valid : BOOLEAN, precious : BOOLEAN,
             w : {s.w : s \in FrameSizes}, h : {s.h : s \in FrameSizes}] :
        fr.valid \/ ~fr.precious}

\* the frames of input 1 are never looked at: one kind stands for all
FramesOn(i, id) ==
    IF i = 0 THEN Frames(id)
    ELSE {fr \in Frames(id) : fr.valid /\ ~fr.precious}

\* upstream filters run in the ticker, before this filter's process
Enqueue(i) ==
    /\ phase = "ready"
    /\ Idle("media")
    /\ connected[i]
    /\ nextId <= MaxFrames
    /\ \E fr \in FramesOn(i, nextId) : inputs' = [inputs EXCEPT ![i] = Append(@, fr)]
    /\ nextId' = nextId + 1
    /\ log' = ""
    /\ UNCHANGED <<phase, arg, mutexKind, heap, f_data, displays, destroyed,
                   lock, connected, pc, op, made,
                   hidden, startBV>>

\* ---------------------------------------------------- calls and returns
Bound(d) == d.context_info.width > 0 /\ d.context_info.height > 0

Goto(t, n) == pc' = [pc EXCEPT ![t] = n]
Advance(t) == Goto(t, pc[t] + 1)
Emit(t, evs) == made' = [made EXCEPT ![t] = @ \o evs]
Leave(t) ==
    /\ Goto(t, 0)
    /\ op' = [op EXCEPT ![t] = "none"]

\* the host calls a function of the filter
Call(t, o) ==
    /\ phase = "ready"
    /\ Idle(t)
    /\ o \in OpsOf(t)
    /\ (o \in {"ogl_zoom", "ogl_enable_mirroring"}) => lock.count <= MaxLockCount
    /\ op' = [op EXCEPT ![t] = o]
    /\ Goto(t, 1)
    /\ startBV' = IF o = "ogl_process" THEN Bound(data) /\ data.show_video
                  ELSE startBV
    /\ log' = ""
    /\ UNCHANGED <<phase, arg, mutexKind, heap, f_data, displays, destroyed,
                   lock, connected, inputs, nextId, made, hidden>>

\* return; and return 0; outside the lock
Return(t) ==
    /\ Stmt(t) \in {"return", "return 0"}
    /\ Leave(t)
    /\ log' = ""
    /\ UNCHANGED <<phase, arg, mutexKind, heap, f_data, displays, destroyed,
                   lock, connected, inputs, nextId, made,
                   hidden, startBV>>

\* ms_filter_lock(f) of thread t: the new lock
ms_filter_lock(t) ==
    /\ mutex_lock_enabled(lock, t, mutexKind)
    /\ lock' = mutex_lock(lock, t, mutexKind)

\* the first relock shows which mutex the build has
ResolveMutex(t) ==
    /\ Stmt(t) \in {"lock; body", "lock; return 0"}
    /\ lock.owner = t
    /\ mutexKind = "unknown"
    /\ mutexKind' \in MutexKinds
    /\ log' = ""
    /\ UNCHANGED <<phase, arg, heap, f_data, displays, destroyed, lock,
                   connected, inputs, nextId, pc, op, made,
                   hidden, startBV>>

\* ms_filter_unlock(f); return 0;
UnlockReturn(t) ==
    /\ Stmt(t) = "unlock; return 0"
    /\ lock' = mutex_unlock(lock, t)
    /\ made' = [made EXCEPT ![t] = <<>>]
    /\ arg' = [arg EXCEPT ![t] = <<>>]
    /\ Leave(t)
    /\ log' = ""
    /\ UNCHANGED <<phase, mutexKind, heap, f_data, displays, destroyed,
                   connected, inputs, nextId,
                   hidden, startBV>>

\* ms_filter_lock(f); return 0;  (ogl_zoom, ogl_enable_mirroring)
LockReturn(t) ==
    /\ Stmt(t) = "lock; return 0"
    /\ ms_filter_lock(t)
    /\ made' = [made EXCEPT ![t] = <<>>]
    /\ arg' = [arg EXCEPT ![t] = <<>>]
    /\ Leave(t)
    /\ log' = ""
    /\ UNCHANGED <<phase, mutexKind, heap, f_data, displays, destroyed,
                   connected, inputs, nextId,
                   hidden, startBV>>

\* ----------------------------------------------------------- ogl_process
\* a guard that skips only when both sizes are 0
ProcessSkips_bothZero(d) ==
    (d.context_info.width = 0 /\ d.context_info.height = 0) \/ ~d.show_video

\* a guard that also waits for a video size
ProcessSkips_needsVideoSize(d) ==
    \/ d.context_info.width = 0 \/ d.context_info.height = 0 \/ ~d.show_video
    \/ d.video_size.height = 0

\* "No context given or video disabled": goto end
ProcessSkips(d) ==
    d.context_info.width = 0 \/ d.context_info.height = 0 \/ ~d.show_video

\* a peek at the oldest frame instead
ms_queue_peek_first(q) == IF Len(q) = 0 THEN 0 ELSE 1

\* ms_queue_peek_last: the index of the newest frame, 0 for none
ms_queue_peek_last(q) == Len(q)

\* a choice that falls back on the newest valid frame of input 0
ProcessPicks_newestValid(conn, ins) ==
    LET ok == {k \in 1 .. Len(ins[0]) : ins[0][k].valid}
    IN  IF conn[0] /\ ok # {}
        THEN <<ins[0][CHOOSE k \in ok : \A j \in ok : j <= k]>>
        ELSE <<>>

\* a choice that falls back on input 1 when input 0 gives nothing
ProcessPicks_eitherInput(conn, ins) ==
    IF conn[0] /\ Len(ins[0]) # 0 /\ ins[0][Len(ins[0])].valid
    THEN <<ins[0][Len(ins[0])]>>
    ELSE IF conn[1] /\ Len(ins[1]) # 0 THEN <<ins[1][Len(ins[1])]>>
    ELSE <<>>

\* the frames the if of ogl_process accepts: the newest one of input 0,
\* when ms_yuv_buf_init_from_mblk succeeds on it
ProcessPicks(conn, ins) ==
    IF conn[0] /\ ms_queue_peek_last(ins[0]) # 0
          /\ ins[0][ms_queue_peek_last(ins[0])].valid
    THEN <<ins[0][ms_queue_peek_last(ins[0])]>>
    ELSE <<>>

\* a test that forgets the precious flag
ProcessMirrors_ignoresPrecious(d, inm) == d.mirroring

\* data->mirroring && !mblk_get_precious_flag(inm)
ProcessMirrors(d, inm) == d.mirroring /\ ~inm.precious

\* video_size.width = src.w; video_size.width = src.h;
ProcessVideoSize(vs, inm) == [vs EXCEPT !.width = inm.h]

\* a submit that passes no handle
ProcessEvents_onNull(d, inm) ==
    <<Event("ogl_display_set_yuv_to_display", NULL, inm.id, 0, 0)>>

ProcessEvents(d, inm) ==
    <<Event("ogl_display_set_yuv_to_display", d.display, inm.id, 0, 0)>>
    \o (IF ProcessMirrors(d, inm)
        THEN <<Event("ms_yuv_buf_mirror", NULL, inm.id, inm.w, inm.h)>>
        ELSE <<>>)

ogl_process_body(t) ==
    /\ At(t, "ogl_process", "lock; body")
    /\ ms_filter_lock(t)
    /\ LET picked == IF ProcessSkips(data) THEN <<>>
                     ELSE ProcessPicks(connected, inputs)
       IN  IF picked = <<>>
           THEN UNCHANGED <<heap, made>>
           ELSE /\ heap' = [heap EXCEPT ![f_data].video_size =
                                ProcessVideoSize(@, picked[1])]
                /\ Emit(t, ProcessEvents(data, picked[1]))
    /\ Advance(t)
    /\ log' = ""
    /\ UNCHANGED <<phase, arg, mutexKind, f_data, displays, destroyed,
                   connected, inputs, nextId, op,
                   hidden, startBV>>

\* a drain that forgets input 1
FlushInputs_onlyInput0(conn, ins) ==
    [i \in 0 .. 1 |-> IF conn[i] /\ i = 0 THEN <<>> ELSE ins[i]]

\* if (f->inputs[i] != NULL) ms_queue_flush(f->inputs[i]), for i = 0, 1
FlushInputs(conn, ins) ==
    [i \in 0 .. 1 |-> IF conn[i] THEN <<>> ELSE ins[i]]

\* end: ms_filter_unlock(f); and the two flushes.  The queues are the
\* ticker's: no other thread sees them between the unlock and the flush.
ogl_process_end(t) ==
    /\ At(t, "ogl_process", "unlock; flush")
    /\ lock' = mutex_unlock(lock, t)
    /\ inputs' = FlushInputs(connected, inputs)
    /\ made' = [made EXCEPT ![t] = <<>>]
    /\ startBV' = FALSE
    /\ Advance(t)
    /\ log' = ""
    /\ UNCHANGED <<phase, arg, mutexKind, heap, f_data, displays, destroyed,
                   connected, nextId, op, hidden>>

\* --------------------------------------------------------------- methods
\* a setter that forgets to take the lock
ogl_set_video_size_body_unlocked(t) ==
    /\ At(t, "ogl_set_video_size", "lock; body")
    /\ \E size \in VideoSizes :
          /\ heap' = [heap EXCEPT ![f_data].video_size = size]
          /\ arg' = [arg EXCEPT ![t] = <<size>>]
    /\ Advance(t)
    /\ log' = ""
    /\ UNCHANGED <<phase, mutexKind, f_data, displays, destroyed, lock,
                   connected, inputs, nextId, op, made, hidden, startBV>>

ogl_set_video_size_body(t) ==
    /\ At(t, "ogl_set_video_size", "lock; body")
    /\ ms_filter_lock(t)
    /\ \E size \in VideoSizes :
          /\ heap' = [heap EXCEPT ![f_data].video_size = size]
          /\ arg' = [arg EXCEPT ![t] = <<size>>]
    /\ Advance(t)
    /\ log' = ""
    /\ UNCHANGED <<phase, mutexKind, f_data, displays, destroyed,
                   connected, inputs, nextId, op, made,
                   hidden, startBV>>

\* the descriptor *arg points to: NULL (<<>>), or a ContextInfo
Descriptors == {<<>>} \cup {<<ci>> : ci \in Sizes}

\* an unbind that forgets the memset
BindContext_keptOnNull(d, desc) ==
    IF desc # <<>> THEN desc[1] ELSE d.context_info

\* data->context_info after the call: *context_info, or zeroed by memset
BindContext(d, desc) ==
    IF desc # <<>> THEN desc[1] ELSE [width |-> 0, height |-> 0]

\* a bind that initialises the geometry of non-empty surfaces only
BindEvents_skipsEmpty(d, desc) ==
    IF desc # <<>> /\ desc[1].width > 0 /\ desc[1].height > 0
    THEN <<Event("ogl_display_init", d.display, 0, desc[1].width, desc[1].height)>>
    ELSE <<>>

\* ogl_display_init(data->display, context_info->width, context_info->height)
BindEvents(d, desc) ==
    IF desc # <<>>
    THEN <<Event("ogl_display_init", d.display, 0, desc[1].width, desc[1].height)>>
    ELSE <<>>

\* a bind that makes the video visible again
ogl_set_native_window_id_body_showing(t) ==
    /\ At(t, "ogl_set_native_window_id", "lock; body")
    /\ ms_filter_lock(t)
    /\ \E desc \in Descriptors :
          /\ heap' = [heap EXCEPT ![f_data].context_info = BindContext(data, desc),
                                  ![f_data].show_video = TRUE]
          /\ Emit(t, BindEvents(data, desc))
          /\ arg' = [arg EXCEPT ![t] = <<desc>>]
    /\ Advance(t)
    /\ log' = ""
    /\ UNCHANGED <<phase, mutexKind, f_data, displays, destroyed,
                   connected, inputs, nextId, op, hidden, startBV>>

ogl_set_native_window_id_body(t) ==
    /\ At(t, "ogl_set_native_window_id", "lock; body")
    /\ ms_filter_lock(t)
    /\ \E desc \in Descriptors :
          /\ heap' = [heap EXCEPT ![f_data].context_info = BindContext(data, desc)]
          /\ Emit(t, BindEvents(data, desc))
          /\ arg' = [arg EXCEPT ![t] = <<desc>>]
    /\ Advance(t)
    /\ log' = ""
    /\ UNCHANGED <<phase, mutexKind, f_data, displays, destroyed,
                   connected, inputs, nextId, op, hidden, startBV>>

\* a setter that does not store its argument
ShowVideoStores_ignored(d, show) == d.show_video

\* data->show_video = *(bool_t *)arg
ShowVideoStores(d, show) == show

ogl_show_video_body(t) ==
    /\ At(t, "ogl_show_video", "lock; body")
    /\ ms_filter_lock(t)
    /\ \E show \in BOOLEAN :
          /\ heap' = [heap EXCEPT ![f_data].show_video = ShowVideoStores(data, show)]
          /\ hidden' = ~show
          /\ arg' = [arg EXCEPT ![t] = <<show>>]
    /\ Advance(t)
    /\ log' = ""
    /\ UNCHANGED <<phase, mutexKind, f_data, displays, destroyed,
                   connected, inputs, nextId, op, made, startBV>>

ogl_zoom_body(t) ==
    /\ At(t, "ogl_zoom", "lock; body")
    /\ ms_filter_lock(t)
    /\ Emit(t, <<Event("ogl_display_zoom", data.display, 0, 0, 0)>>)
    /\ Advance(t)
    /\ log' = ""
    /\ UNCHANGED <<phase, arg, mutexKind, heap, f_data, displays, destroyed,
                   connected, inputs, nextId, op,
                   hidden, startBV>>

ogl_enable_mirroring_body(t) ==
    /\ At(t, "ogl_enable_mirroring", "lock; body")
    /\ ms_filter_lock(t)
    /\ \E enable \in BOOLEAN :
          /\ heap' = [heap EXCEPT ![f_data].mirroring = enable]
          /\ arg' = [arg EXCEPT ![t] = <<enable>>]
    /\ Advance(t)
    /\ log' = ""
    /\ UNCHANGED <<phase, mutexKind, f_data, displays, destroyed,
                   connected, inputs, nextId, op, made,
                   hidden, startBV>>

\* a test that forgets the height
RenderDraws_widthOnly(d) ==
    d.context_info.width > 0 /\ d.show_video

\* width > 0 && height > 0 && show_video
RenderDraws(d) ==
    d.context_info.width > 0 /\ d.context_info.height > 0 /\ d.show_video

ogl_call_render_body(t) ==
    /\ At(t, "ogl_call_render", "lock; body")
    /\ ms_filter_lock(t)
    /\ Emit(t, IF RenderDraws(data)
               THEN <<Event("ogl_display_render", data.display, 0, 0, 0)>>
               ELSE <<>>)
    /\ Advance(t)
    /\ log' = ""
    /\ UNCHANGED <<phase, arg, mutexKind, heap, f_data, displays, destroyed,
                   connected, inputs, nextId, op,
                   hidden, startBV>>

\* ------------------------------------------------------- the specification
Step(t) ==
    \/ ResolveMutex(t)
    \/ UnlockReturn(t)
    \/ LockReturn(t)
    \/ ogl_process_body(t)
    \/ ogl_process_end(t)
    \/ ogl_set_video_size_body(t)
    \/ ogl_set_native_window_id_body(t)
    \/ ogl_show_video_body(t)
    \/ ogl_zoom_body(t)
    \/ ogl_enable_mirroring_body(t)
    \/ ogl_call_render_body(t)
    \/ Return(t)

Next ==
    \/ ogl_init
    \/ ogl_uninit
    \/ \E i \in 0 .. 1 : Enqueue(i)
    \/ \E t \in Threads : \E o \in OpsOf(t) : Call(t, o)
    \/ \E t \in Threads : Step(t)

Spec == Init /\ [][Next]_vars

\* A thread inside a function runs on; it waits only for the lock, and a
\* thread that finds the lock free again and again gets it.  When the host
\* calls the filter is up to the host.
FairSpec ==
    /\ Spec
    /\ \A t \in Threads : SF_vars(Step(t))

\* ------------------------------------------------------------ properties
Media == "media"
Control == "control"
Draws == {"ogl_process", "ogl_call_render"}

\* thread t has run the code of function o under the lock and not yet
\* executed the statement after it (the unlock)
Ran(t, o) == op[t] = o /\ pc[t] = 2 /\ Code(o)[1] = "lock; body"

Last(q) == q[Len(q)]
Range(q) == {q[k] : k \in 1 .. Len(q)}
Submitted(t) == CallsOf(made[t], "ogl_display_set_yuv_to_display")
Mirrored(t) == CallsOf(made[t], "ms_yuv_buf_mirror")

\* C1: while the stored context width or height is 0, a ProcessFrame or a
\* Render that has run made no renderer call: no frame submitted, no draw.
C1_NoRendererCallWhileUnbound ==
    \A t \in Threads : \A o \in Draws :
        (Ran(t, o) /\ (data.context_info.width = 0 \/ data.context_info.height = 0))
            => RendererCalls(made[t]) = <<>>

\* ProcessFrame ran with a frame it would forward, visible, bound with a
\* descriptor of width 0 and height > 0, and made no call
C1_Witness ==
    /\ Ran(Media, "ogl_process")
    /\ data.context_info.width = 0 /\ data.context_info.height > 0
    /\ data.show_video
    /\ inputs[0] # <<>> /\ Last(inputs[0]).valid
    /\ made[Media] = <<>>

\* the steps C2 speaks of
NullBindStep ==
    \E t \in Threads :
        /\ At(t, "ogl_set_native_window_id", "lock; body")
        /\ pc'[t] = 2
        /\ CallsOf(made'[t], "ogl_display_init") = <<>>

RebindStep ==
    \E t \in Threads :
        /\ At(t, "ogl_set_native_window_id", "lock; body")
        /\ pc'[t] = 2
        /\ \E e \in Range(made'[t]) :
              e.fn = "ogl_display_init" /\ e.w > 0 /\ e.h > 0

DrawStep ==
    \E t \in Threads : \E o \in Draws :
        /\ At(t, o, "lock; body")
        /\ pc'[t] = 2
        /\ RendererCalls(made'[t]) # <<>>

\* C2: a bind with a null descriptor leaves the filter unbound; an unbound
\* filter becomes bound only by a bind with a non-null descriptor of
\* non-zero width and height; and a ProcessFrame or Render step makes a
\* renderer call only when the filter is bound.  So from a null bind on, no
\* ProcessFrame and no Render makes a renderer call until such a rebind.
C2_NoCallsFromUnbindToRebind ==
    [][(phase = "ready" /\ phase' = "ready") =>
          /\ NullBindStep => ~Bound(data')
          /\ (~Bound(data) /\ Bound(data')) => RebindStep
          /\ DrawStep => Bound(data)]_vars

\* Render ran unbound, visible, and drew nothing, after a frame had been
\* forwarded: the filter was bound and has been unbound since
C2_Witness ==
    /\ Ran(Media, "ogl_call_render")
    /\ data.context_info = [width |-> 0, height |-> 0]
    /\ data.show_video
    /\ data.video_size.width # 0 /\ data.video_size.height = 0
    /\ made[Media] = <<>>

\* C3: from a SetVisible(false) until the next SetVisible(true), a
\* ProcessFrame or Render that has run made no renderer call.
C3_HiddenSuppresses ==
    \A t \in Threads : \A o \in Draws :
        (Ran(t, o) /\ hidden) => RendererCalls(made[t]) = <<>>

\* ProcessFrame ran hidden, bound, with a valid newest frame, and made no call
C3_Witness ==
    /\ Ran(Media, "ogl_process")
    /\ hidden
    /\ Bound(data)
    /\ inputs[0] # <<>> /\ Last(inputs[0]).valid
    /\ made[Media] = <<>>

AllValid(q) == \A k \in 1 .. Len(q) : q[k].valid

\* exactly one frame submitted, the newest of input 0
SubmitsLastOnly(t) ==
    /\ Len(Submitted(t)) = 1
    /\ Submitted(t)[1].frame = Last(inputs[0]).id

\* no submitted frame is an older frame of input 0 or a frame already flushed
NeverAnOlderFrame ==
    \A t \in Threads : \A e \in Range(Submitted(t)) :
        /\ inputs[0] # <<>>
        /\ e.frame = Last(inputs[0]).id
        /\ \A k \in 1 .. Len(inputs[0]) - 1 : inputs[0][k].id # e.frame

\* C4 as stated: bound and visible when the ProcessFrame call starts
C4_AsStated ==
    (Ran(Media, "ogl_process") /\ startBV
        /\ inputs[0] # <<>> /\ AllValid(inputs[0]))
    => SubmitsLastOnly(Media)

\* C4 (amended): when the filter is bound and visible at the moment
\* ProcessFrame tests it under the lock, and input 0 holds [F1..Fn], n >= 1,
\* all valid, the call submits exactly one frame, Fn; and no call ever
\* submits a frame that is not the newest of input 0.
C4_LastFrameWins ==
    /\ (Ran(Media, "ogl_process") /\ Bound(data) /\ data.show_video
          /\ inputs[0] # <<>> /\ AllValid(inputs[0]))
       => SubmitsLastOnly(Media)
    /\ NeverAnOlderFrame

\* ProcessFrame ran on two valid queued frames and submitted the second
C4_Witness ==
    /\ Ran(Media, "ogl_process")
    /\ Len(inputs[0]) >= 2 /\ AllValid(inputs[0])
    /\ Bound(data) /\ data.show_video
    /\ SubmitsLastOnly(Media)

\* C5: when ProcessFrame returns, both input queues are empty.
C5_DrainedAtReturn ==
    \A t \in Threads :
        At(t, "ogl_process", "return") => \A i \in 0 .. 1 : inputs[i] = <<>>

\* ProcessFrame returns unbound, both inputs connected, after at least two
\* frames were queued: none was forwarded, all were flushed
C5_Witness ==
    /\ At(Media, "ogl_process", "return")
    /\ connected[0] /\ connected[1]
    /\ nextId > 2
    /\ ~Bound(data)
    /\ data.video_size = [width |-> 0, height |-> 0]

FrameOf(id) == CHOOSE fr \in Range(inputs[0]) : fr.id = id

\* C6: a forwarded frame is mirrored iff the mirroring flag is set and the
\* frame is not precious; nothing else is mirrored.
C6_MirrorIff ==
    \A t \in Threads :
        Ran(t, "ogl_process") =>
            /\ \A e \in Range(Submitted(t)) :
                  (data.mirroring /\ ~FrameOf(e.frame).precious)
                  <=> (\E m \in Range(Mirrored(t)) : m.frame = e.frame)
            /\ \A m \in Range(Mirrored(t)) :
                  \E e \in Range(Submitted(t)) : e.frame = m.frame
            /\ Len(Mirrored(t)) <= 1

\* ProcessFrame forwarded a frame and mirrored it
C6_Witness ==
    /\ Ran(Media, "ogl_process")
    /\ Submitted(Media) # <<>>
    /\ Mirrored(Media) # <<>>

\* the handle ogl_init created
InitHandle == ogl_display_new({})
TimesDestroyed(h) == Len(SelectSeq(destroyed, LAMBDA x : x = h))

\* C7: after init and uninit the handle init created has been passed to
\* ogl_display_free exactly once.
C7_HandleReleasedOnce ==
    phase = "uninit" => TimesDestroyed(InitHandle) = 1

\* C8: a thread that is in no function of the filter does not hold the lock.
C8_LockFreeAfterReturn ==
    \A t \in Threads : Idle(t) => lock.owner # t

\* C9: every call returns.
C9_EveryCallReturns ==
    \A t \in Threads : (pc[t] # 0) ~> (pc[t] = 0)

\* C10: a thread that has run code of the filter under the lock and has not
\* released it holds the lock, and the two threads are never both there.
C10_MutualExclusion ==
    /\ \A t \in Threads : \A o \in methods \cup {"ogl_process"} :
          Ran(t, o) => lock.owner = t
    /\ ~(\E o1, o2 \in methods \cup {"ogl_process"} :
            Ran(Media, o1) /\ Ran(Control, o2))

\* the media thread waits for the lock while the control thread is under it
C10_Witness ==
    /\ Ran(Control, "ogl_set_native_window_id")
    /\ At(Media, "ogl_process", "lock; body")
    /\ lock.owner = Control

\* thread t executes the code function o runs under the lock
BodyStep(t, o) == At(t, o, "lock; body") /\ pc'[t] = 2
\* thread t executes a statement of function o
StepOf(t, o) == op[t] = o /\ pc'[t] # pc[t]

\* C11: Render requests exactly one draw, on the filter's handle, when the
\* filter is bound and visible, and none otherwise; no statement of Render
\* submits a frame, changes an input queue or changes a field of the
\* instance (context size, visibility, mirroring).
C11_RenderOnlyDraws ==
    [][\A t \in Threads :
          /\ BodyStep(t, "ogl_call_render") =>
                made'[t] = IF Bound(data) /\ data.show_video
                           THEN <<Event("ogl_display_render", InitHandle, 0, 0, 0)>>
                           ELSE <<>>
          /\ StepOf(t, "ogl_call_render") =>
                /\ inputs' = inputs
                /\ heap' = heap]_vars

\* Render ran bound and visible with frames waiting on input 0: one draw,
\* the queue as it was
C11_Witness ==
    /\ Ran(Media, "ogl_call_render")
    /\ Bound(data) /\ data.show_video
    /\ made[Media] = <<Event("ogl_display_render", InitHandle, 0, 0, 0)>>
    /\ Len(inputs[0]) = 2

\* C12: between init and uninit f->data is installed, the handle it holds
\* is the one ogl_init created, never NULL, and live; every renderer call a
\* thread makes is made on that handle.
C12_HandleStable ==
    phase = "ready" =>
        /\ f_data # NULL /\ f_data \in DOMAIN heap
        /\ data.display # NULL
        /\ data.display = InitHandle
        /\ data.display \in displays
        /\ \A t \in Threads : \A e \in Range(RendererCalls(made[t])) :
              e.display = InitHandle

\* a frame is being submitted, on the handle ogl_init created
C12_Witness ==
    /\ Ran(Media, "ogl_process")
    /\ Submitted(Media) # <<>>
    /\ Submitted(Media)[1].display = InitHandle
    /\ data.display = InitHandle

\* the instance ogl_init leaves
Constructed ==
    [context_info |-> [width |-> 0, height |-> 0],
     display      |-> InitHandle,
     video_size   |-> [width |-> 0, height |-> 0],
     show_video   |-> TRUE,
     mirroring    |-> FALSE]

\* C13: whatever the outcome of the glew probe, ogl_init installs f->data,
\* with a created handle, show_video TRUE, mirroring FALSE and a context
\* of 0x0; a failed probe writes an error message and changes nothing else.
C13_InitConstructs ==
    [][(phase = "created" /\ phase' = "ready") =>
          /\ f_data' # NULL /\ f_data' \in DOMAIN heap'
          /\ heap'[f_data'] = Constructed
          /\ InitHandle # NULL /\ InitHandle \in displays'
          /\ log' \in {GlewError(probe) : probe \in GlewOutcomes}
          /\ <<lock, pc, op, made, inputs>>' = <<lock, pc, op, made, inputs>>]_vars

\* ogl_init has returned after a failed probe
C13_Witness ==
    /\ phase = "ready"
    /\ log = "glew 2.0 is required"
    /\ data = Constructed
    /\ ~Bound(data)

\* C14: after the code of BindSurface has run with a non-null descriptor
\* (w, h), the stored context size is (w, h) and the call has made exactly
\* one renderer call, ogl_display_init(handle, w, h), whether or not w or h
\* is 0, and the filter is bound iff w > 0 and h > 0; with a null descriptor
\* the stored size is (0, 0), no renderer call was made, the filter is unbound.
C14_BindStoresAndInits ==
    \A t \in Threads :
        Ran(t, "ogl_set_native_window_id") =>
            LET desc == arg[t][1]
            IN  IF desc # <<>>
                THEN /\ data.context_info = desc[1]
                     /\ made[t] = <<Event("ogl_display_init", InitHandle, 0,
                                          desc[1].width, desc[1].height)>>
                     /\ Bound(data) <=> (desc[1].width > 0 /\ desc[1].height > 0)
                ELSE /\ data.context_info = [width |-> 0, height |-> 0]
                     /\ made[t] = <<>>
                     /\ ~Bound(data)

\* BindSurface ran with a descriptor of width 0: stored, geometry
\* initialised with it, filter unbound
C14_Witness ==
    /\ Ran(Control, "ogl_set_native_window_id")
    /\ arg[Control] = <<(<<[width |-> 0, height |-> 1]>>)>>
    /\ data.context_info = [width |-> 0, height |-> 1]
    /\ Len(made[Control]) = 1
    /\ ~Bound(data)

\* the renderer calls ProcessFrame makes, from the context size, the
\* visibility and input 0 alone
ForwardCalls ==
    IF Bound(data) /\ data.show_video /\ connected[0]
          /\ inputs[0] # <<>> /\ Last(inputs[0]).valid
    THEN <<Event("ogl_display_set_yuv_to_display", InitHandle,
                 Last(inputs[0]).id, 0, 0)>>
    ELSE <<>>

\* the renderer calls Render makes, from the context size and the visibility
DrawCalls ==
    IF Bound(data) /\ data.show_video
    THEN <<Event("ogl_display_render", InitHandle, 0, 0, 0)>>
    ELSE <<>>

\* the fields of the instance other than video_size
Flags(d) == <<d.context_info, d.display, d.show_video, d.mirroring>>

\* C15: no statement of SetVideoSize makes a renderer call, changes an
\* input queue or changes a field of the instance other than video_size;
\* and the renderer calls of ProcessFrame, Render, BindSurface and Zoom are
\* fixed by the context size, the visibility, input 0 and the argument,
\* whatever video_size holds.  So SetVideoSize calls put anywhere into a
\* run leave its renderer calls as they were.
C15_SetVideoSizeInert ==
    [][\A t \in Threads :
          /\ StepOf(t, "ogl_set_video_size") =>
                /\ made'[t] = <<>>
                /\ inputs' = inputs
                /\ Flags(data') = Flags(data)
          /\ BodyStep(t, "ogl_process") =>
                /\ RendererCalls(made'[t]) = ForwardCalls
                /\ Flags(data') = Flags(data)
          /\ BodyStep(t, "ogl_call_render") =>
                RendererCalls(made'[t]) = DrawCalls
          /\ BodyStep(t, "ogl_set_native_window_id") =>
                RendererCalls(made'[t]) =
                    IF arg'[t][1] = <<>> THEN <<>>
                    ELSE <<Event("ogl_display_init", InitHandle, 0,
                                 arg'[t][1][1].width, arg'[t][1][1].height)>>
          /\ BodyStep(t, "ogl_zoom") =>
                RendererCalls(made'[t]) =
                    <<Event("ogl_display_zoom", InitHandle, 0, 0, 0)>>]_vars

\* ProcessFrame forwards a frame after a SetVideoSize stored its size
\* (only SetVideoSize writes video_size.height)
C15_Witness ==
    /\ Ran(Media, "ogl_process")
    /\ data.video_size.height # 0
    /\ Submitted(Media) # <<>>

\* C16: no statement of BindSurface changes show_video or mirroring, none
\* of SetVisible changes the context size or mirroring, none of
\* SetMirroring changes the context size or show_video.
C16_FlagsIndependent ==
    [][\A t \in Threads :
          /\ StepOf(t, "ogl_set_native_window_id") =>
                /\ data'.show_video = data.show_video
                /\ data'.mirroring = data.mirroring
          /\ StepOf(t, "ogl_show_video") =>
                /\ data'.context_info = data.context_info
                /\ data'.mirroring = data.mirroring
          /\ StepOf(t, "ogl_enable_mirroring") =>
                /\ data'.context_info = data.context_info
                /\ data'.show_video = data.show_video]_vars

\* a rebind of a filter that was hidden and mirrored: bound again, still
\* hidden, still mirrored
C16_Witness ==
    /\ Ran(Control, "ogl_set_native_window_id")
    /\ Bound(data)
    /\ hidden /\ ~data.show_video
    /\ data.mirroring

\* C17: a ProcessFrame that ran while the newest frame of input 0 is not a
\* valid YUV buffer submitted no frame, whatever is queued before it; a
\* ProcessFrame never calls ogl_display_render; and the older frames are
\* gone with the rest when it returns.
C17_OnlyLastConsidered ==
    \A t \in Threads :
        /\ (Ran(t, "ogl_process") /\ inputs[0] # <<>> /\ ~Last(inputs[0]).valid)
              => Submitted(t) = <<>>
        /\ (op[t] = "ogl_process")
              => CallsOf(made[t], "ogl_display_render") = <<>>
        /\ At(t, "ogl_process", "return") => inputs[0] = <<>>

\* ProcessFrame ran bound and visible on [valid, invalid] and submitted nothing
C17_Witness ==
    /\ Ran(Media, "ogl_process")
    /\ Bound(data) /\ data.show_video
    /\ Len(inputs[0]) = 2
    /\ inputs[0][1].valid /\ ~inputs[0][2].valid
    /\ made[Media] = <<>>

Ids(q) == {q[k].id : k \in 1 .. Len(q)}

\* C18: every frame a thread submits is a frame of input 0 and none of
\* input 1; and a statement of ProcessFrame changes input 1 only by
\* emptying it.
C18_Input1NeverShown ==
    [][\A t \in Threads :
          /\ \A e \in Range(Submitted(t)') :
                e.frame \in Ids(inputs'[0]) /\ e.frame \notin Ids(inputs'[1])
          /\ StepOf(t, "ogl_process") =>
                inputs'[1] \in {inputs[1], <<>>}]_vars

\* ProcessFrame ran bound and visible with a frame on input 1 and none on
\* input 0, and submitted nothing
C18_Witness ==
    /\ Ran(Media, "ogl_process")
    /\ Bound(data) /\ data.show_video
    /\ inputs[0] = <<>> /\ inputs[1] # <<>>
    /\ made[Media] = <<>>

====
